---- MODULE Spec2Model ----
(***************************************************************************)
(* Model of validate_js.py: the duplicate-declaration scan, the delimiter  *)
(* balance check, the per-file merge in validate_html_file and the run     *)
(* loop of main.                                                           *)
(*                                                                         *)
(* A script text is a sequence of tokens.  A token is a word (a maximal    *)
(* run of \w characters: a keyword, an identifier, a number), a            *)
(* punctuation character, or the newline NL.  Two adjacent word tokens are *)
(* separated by whitespace in the text (otherwise they would be one word), *)
(* so the regular expression \bKW\s+(\w+) matches at a token exactly when  *)
(* that token is KW and the next token of the line is a word.              *)
(***************************************************************************)
EXTENDS Integers, Sequences, FiniteSets, TLC

\* ------------------------------------------------------------------ bounds
MaxLines == 3
MaxBlocks == 2
MaxFiles == 2

\* ------------------------------------------------------------------ tokens
NL == "\n"
Keywords == {"let", "const", "var"}
Idents == {"a", "b", "x"}
Words == Keywords \cup Idents \cup {"function", "f", "return", "1", "2", "3"}

\* ------------------------------------------------------- string primitives
\* str.count(c)
RECURSIVE count(_, _)
count(s, c) ==
    IF s = <<>> THEN 0
    ELSE (IF Head(s) = c THEN 1 ELSE 0) + count(Tail(s), c)

\* str.split('\n'): always at least one line
RECURSIVE split_from(_, _, _)
split_from(s, k, cur) ==
    IF k > Len(s) THEN <<cur>>
    ELSE IF s[k] = NL THEN <<cur>> \o split_from(s, k + 1, <<>>)
    ELSE split_from(s, k + 1, Append(cur, s[k]))

split(s) == split_from(s, 1, <<>>)

\* line.strip(): whitespace is not a token, so nothing is left to remove
strip(line) == line

abs(n) == IF n < 0 THEN 0 - n ELSE n

\* re.finditer(r'\bKW\s+(\w+)', line): the captured names, leftmost first,
\* the search resuming after the end of each match
RECURSIVE finditer_from(_, _, _)
finditer_from(kw, line, p) ==
    IF p > Len(line) THEN <<>>
    ELSE IF line[p] = kw /\ p + 1 <= Len(line) /\ line[p + 1] \in Words
         THEN <<line[p + 1]>> \o finditer_from(kw, line, p + 2)
         ELSE finditer_from(kw, line, p + 1)

finditer(kw, line) == finditer_from(kw, line, 1)

\* ------------------------------------------- check_duplicate_declarations
\* faulty variant: the var pattern run first
patterns_VarFirst == <<"var", "const", "let">>
\* patterns: (regex, decl_type) for let, const, var, run in this order
patterns == <<"let", "const", "var">>

\* the matches of one pattern on one line, as (var_name, occurrence)
MatchesOf(kw, line, n) ==
    LET names == finditer(kw, line)
    IN  [k \in 1..Len(names) |->
            [var_name |-> names[k], occ |-> <<n, kw, strip(line)>>]]

\* for pattern, decl_type in patterns: for match in matches
RECURSIVE MatchesFrom(_, _, _)
MatchesFrom(k, line, n) ==
    IF k > Len(patterns) THEN <<>>
    ELSE MatchesOf(patterns[k], line, n) \o MatchesFrom(k + 1, line, n)

LineMatches(line, n) == MatchesFrom(1, line, n)

\* global_declarations[var_name].append(occ) on an insertion-ordered dict
HasKey(index, name) == \E k \in 1..Len(index) : index[k].variable = name

IndexAppend(index, name, occ) ==
    IF HasKey(index, name)
    THEN [k \in 1..Len(index) |->
            IF index[k].variable = name
            THEN [index[k] EXCEPT !.occurrences = Append(@, occ)]
            ELSE index[k]]
    ELSE Append(index, [variable |-> name, occurrences |-> <<occ>>])

RECURSIVE RecordAll(_, _)
RecordAll(index, ms) ==
    IF ms = <<>> THEN index
    ELSE RecordAll(IndexAppend(index, Head(ms).var_name, Head(ms).occ), Tail(ms))

\* line_depth = brace_depth - line.count('{') + line.count('}')
\* faulty variant: the depth after the line used as the depth before it
line_depth_NoSubtract(depth, line) == depth
line_depth(depth, line) == depth - count(line, "{") + count(line, "}")

\* one iteration of the for loop over the lines
ScanStep(depth, index, n, line) ==
    LET d == depth + count(line, "{") - count(line, "}")
    IN  [brace_depth |-> d,
         global_declarations |->
            IF line_depth(d, line) <= 0
            THEN RecordAll(index, LineMatches(line, n))
            ELSE index]

\* if len(occurrences) > 1
\* faulty variant: a single occurrence already reported
IsDuplicate_AtLeastOne(occurrences) == Len(occurrences) >= 1
IsDuplicate(occurrences) == Len(occurrences) > 1

DuplicateError(e) ==
    [type |-> "duplicate_declaration",
     variable |-> e.variable,
     occurrences |-> e.occurrences,
     message |-> [variable |-> e.variable, times |-> Len(e.occurrences)]]

\* for var_name, occurrences in global_declarations.items()
DuplicateErrors(index) ==
    LET dups == SelectSeq(index, LAMBDA e : IsDuplicate(e.occurrences))
    IN  [k \in 1..Len(dups) |-> DuplicateError(dups[k])]

RECURSIVE ScanFrom(_, _, _, _)
ScanFrom(depth, index, ls, n) ==
    IF n > Len(ls) THEN index
    ELSE LET st == ScanStep(depth, index, n, ls[n])
         IN  ScanFrom(st.brace_depth, st.global_declarations, ls, n + 1)

\* the whole function, run from fresh locals
check_duplicate_declarations(code) ==
    DuplicateErrors(ScanFrom(0, <<>>, split(code), 1))

\* ---------------------------------------------------- check_syntax_errors
\* 'opening' if count > 0 else 'closing'; faulty variant first: the two swapped
direction_Swapped(n) == IF n > 0 THEN "closing" ELSE "opening"
direction(n) == IF n > 0 THEN "opening" ELSE "closing"

Unmatched(type, n) ==
    IF n # 0
    THEN << [type |-> type,
             message |-> [magnitude |-> abs(n), direction |-> direction(n)]] >>
    ELSE <<>>

check_syntax_errors(code) ==
    Unmatched("unmatched_braces", count(code, "{") - count(code, "}"))
    \o Unmatched("unmatched_parentheses", count(code, "(") - count(code, ")"))
    \o Unmatched("unmatched_brackets", count(code, "[") - count(code, "]"))

\* all_errors.extend([(i, err) for err in errs])
Tagged(i, errs) == [k \in 1..Len(errs) |-> <<i, errs[k]>>]


\* ------------------------------------------------------------------ inputs
\* the lines the bounded texts are built from
LineSet ==
    { <<"let", "a">>,
      <<"var", "b", "let", "a">>,
      <<"{">>,
      <<"}">>,
      <<"const", "a", "{">>,
      <<"function", "f", "(", ")", "{", "let", "a", "=", "2", ";", "}">>,
      <<"let", "let", "a", "(">>,
      <<")", "(", "[">>,
      <<"var", "b", "]", ")">> }

RECURSIVE JoinLines(_)
JoinLines(ls) ==
    IF Len(ls) = 1 THEN ls[1]
    ELSE ls[1] \o <<NL>> \o JoinLines(Tail(ls))

\* the three concrete scenarios of the specification, and the empty text
ScenarioA ==
    JoinLines(<< <<"let", "a", "=", "1", ";">>,
                 <<"function", "f", "(", ")", "{", "let", "a", "=", "2", ";", "}">>,
                 <<"let", "a", "=", "3", ";">> >>)
ScenarioB ==
    JoinLines(<< <<"function", "f", "(", ")", "{">>, <<"return", "1", ";">> >>)
ScenarioC == <<"const", "x", "=", "[", "1", ",", "2", ",", "3", "]", ";">>
EmptyText == <<>>

Texts ==
    { JoinLines(ls) : ls \in UNION { [1..n -> LineSet] : n \in 1..MaxLines } }
    \cup {ScenarioA, ScenarioB, ScenarioC, EmptyText}

\* the texts the documents with several script blocks are built from
BlockTexts == {ScenarioA, ScenarioB, ScenarioC}

\* what extract_javascript_from_html can return for a document
Docs ==
    {<<>>}
    \cup { <<t>> : t \in Texts }
    \cup UNION { [1..n -> BlockTexts] : n \in 2..MaxBlocks }

\* ------------------------------------------------------------------- state
VARIABLES
    templates_exists,    \* templates_dir.exists()
    html_files,          \* list(templates_dir.glob('*.html'))
    pc,                  \* position in main / validate_html_file / the scan
    file_idx,            \* position of the for loop of main
    all_valid,           \* main's flag
    exit_code,           \* argument of sys.exit, -1 while running
    scripts,             \* validate_html_file: the extracted blocks
    i,                   \* validate_html_file: enumerate(scripts, 1)
    all_errors,          \* validate_html_file: the merged list
    ret,                 \* validate_html_file: returned value
    reported,            \* validate_html_file: the (block, error) pairs printed
    js_code,             \* argument of the two checks
    lines,               \* check_duplicate_declarations: js_code.split('\n')
    line_num,            \* check_duplicate_declarations: enumerate(lines, 1)
    brace_depth,         \* check_duplicate_declarations: running depth
    global_declarations, \* check_duplicate_declarations: the index
    dup_errors,          \* result of check_duplicate_declarations
    syntax_errors,       \* result of check_syntax_errors
    any_defect,          \* history: some check returned a non-empty list
    validated,           \* history: files validate_html_file was called on
    dup_checked,         \* history: blocks of this file given to the first check
    syn_checked          \* history: blocks of this file given to the second check

main_vars == <<templates_exists, html_files, file_idx, all_valid, exit_code>>
file_vars == <<scripts, i, all_errors, ret, reported>>
scan_vars == <<js_code, lines, line_num, brace_depth, global_declarations, dup_errors>>
hist_vars == <<any_defect, validated, dup_checked, syn_checked>>
vars == <<pc, main_vars, file_vars, scan_vars, syntax_errors, hist_vars>>

Init ==
    /\ templates_exists \in BOOLEAN
    /\ html_files \in { [k \in 1..n |-> k] : n \in 0..MaxFiles }
    /\ pc = "main"
    /\ file_idx = 1
    /\ all_valid = TRUE
    /\ exit_code = -1
    /\ scripts = <<>>
    /\ i = 1
    /\ all_errors = <<>>
    /\ ret = TRUE
    /\ reported = <<>>
    /\ js_code = <<>>
    /\ lines = <<>>
    /\ line_num = 1
    /\ brace_depth = 0
    /\ global_declarations = <<>>
    /\ dup_errors = <<>>
    /\ syntax_errors = <<>>
    /\ any_defect = FALSE
    /\ validated = <<>>
    /\ dup_checked = <<>>
    /\ syn_checked = <<>>

\* -------------------------------------------------------------------- main
\* if not templates_dir.exists(): sys.exit(1)
MainDirMissing ==
    /\ pc = "main"
    /\ ~templates_exists
    /\ exit_code' = 1
    /\ pc' = "done"
    /\ UNCHANGED <<templates_exists, html_files, file_idx, all_valid>>
    /\ UNCHANGED <<file_vars, scan_vars, syntax_errors, hist_vars>>

\* if not html_files: sys.exit(0)
MainNoFiles ==
    /\ pc = "main"
    /\ templates_exists
    /\ html_files = <<>>
    /\ exit_code' = 0
    /\ pc' = "done"
    /\ UNCHANGED <<templates_exists, html_files, file_idx, all_valid>>
    /\ UNCHANGED <<file_vars, scan_vars, syntax_errors, hist_vars>>

\* all_valid = True; enter the for loop
MainStart ==
    /\ pc = "main"
    /\ templates_exists
    /\ html_files # <<>>
    /\ all_valid' = TRUE
    /\ file_idx' = 1
    /\ pc' = "for_file"
    /\ UNCHANGED <<templates_exists, html_files, exit_code>>
    /\ UNCHANGED <<file_vars, scan_vars, syntax_errors, hist_vars>>

\* ------------------------------------------------------ validate_html_file
\* faulty variant: a document without script blocks counted as a failure
ValidateNoScripts_Fail ==
    /\ pc = "for_file"
    /\ file_idx <= Len(html_files)
    /\ scripts' = <<>>
    /\ ret' = FALSE
    /\ reported' = <<>>
    /\ validated' = Append(validated, html_files[file_idx])
    /\ dup_checked' = <<>>
    /\ syn_checked' = <<>>
    /\ pc' = "returned"
    /\ UNCHANGED <<main_vars, i, all_errors, scan_vars, syntax_errors, any_defect>>

\* the call, the read and the extraction; no script block: return True
ValidateNoScripts ==
    /\ pc = "for_file"
    /\ file_idx <= Len(html_files)
    /\ scripts' = <<>>
    /\ ret' = TRUE
    /\ reported' = <<>>
    /\ validated' = Append(validated, html_files[file_idx])
    /\ dup_checked' = <<>>
    /\ syn_checked' = <<>>
    /\ pc' = "returned"
    /\ UNCHANGED <<main_vars, i, all_errors, scan_vars, syntax_errors, any_defect>>

\* the call, the read and the extraction; some script blocks: enter the loop
ValidateBegin ==
    /\ pc = "for_file"
    /\ file_idx <= Len(html_files)
    /\ \E doc \in Docs \ {<<>>} : scripts' = doc
    /\ all_errors' = <<>>
    /\ i' = 1
    /\ validated' = Append(validated, html_files[file_idx])
    /\ dup_checked' = <<>>
    /\ syn_checked' = <<>>
    /\ pc' = "for_script"
    /\ UNCHANGED <<main_vars, ret, reported, scan_vars, syntax_errors, any_defect>>

\* faulty variant: the depth, the index and the errors kept from the last call
CallCheckDup_NoReset ==
    /\ pc = "for_script"
    /\ i <= Len(scripts)
    /\ js_code' = scripts[i]
    /\ lines' = split(scripts[i])
    /\ line_num' = 1
    /\ dup_checked' = Append(dup_checked, i)
    /\ pc' = "scan"
    /\ UNCHANGED <<main_vars, file_vars, syntax_errors, any_defect, validated, syn_checked>>
    /\ UNCHANGED <<brace_depth, global_declarations, dup_errors>>

\* dup_errors = check_duplicate_declarations(script): entry, fresh locals
CallCheckDup ==
    /\ pc = "for_script"
    /\ i <= Len(scripts)
    /\ js_code' = scripts[i]
    /\ dup_errors' = <<>>
    /\ global_declarations' = <<>>
    /\ lines' = split(scripts[i])
    /\ brace_depth' = 0
    /\ line_num' = 1
    /\ dup_checked' = Append(dup_checked, i)
    /\ pc' = "scan"
    /\ UNCHANGED <<main_vars, file_vars, syntax_errors, any_defect, validated, syn_checked>>

\* one iteration of: for line_num, line in enumerate(lines, 1)
ScanLine ==
    /\ pc = "scan"
    /\ line_num <= Len(lines)
    /\ LET st == ScanStep(brace_depth, global_declarations, line_num, lines[line_num])
       IN  /\ brace_depth' = st.brace_depth
           /\ global_declarations' = st.global_declarations
    /\ line_num' = line_num + 1
    /\ UNCHANGED <<pc, main_vars, file_vars, js_code, lines, dup_errors>>
    /\ UNCHANGED <<syntax_errors, hist_vars>>

\* the loop over the index, the return, and all_errors.extend
CollectDuplicates ==
    /\ pc = "scan"
    /\ line_num > Len(lines)
    /\ LET errs == DuplicateErrors(global_declarations)
       IN  /\ dup_errors' = errs
           /\ all_errors' = all_errors \o Tagged(i, errs)
           /\ any_defect' = (any_defect \/ errs # <<>>)
    /\ pc' = "syntax"
    /\ UNCHANGED <<main_vars, scripts, i, ret, reported>>
    /\ UNCHANGED <<js_code, lines, line_num, brace_depth, global_declarations>>
    /\ UNCHANGED <<syntax_errors, validated, dup_checked, syn_checked>>

\* syntax_errors = check_syntax_errors(script), all_errors.extend, next block
CheckSyntax ==
    /\ pc = "syntax"
    /\ LET errs == check_syntax_errors(scripts[i])
       IN  /\ syntax_errors' = errs
           /\ all_errors' = all_errors \o Tagged(i, errs)
           /\ any_defect' = (any_defect \/ errs # <<>>)
    /\ syn_checked' = Append(syn_checked, i)
    /\ i' = i + 1
    /\ pc' = "for_script"
    /\ UNCHANGED <<main_vars, scripts, ret, reported, scan_vars>>
    /\ UNCHANGED <<validated, dup_checked>>

\* if all_errors: print them, return False; else return True
ValidateReturn ==
    /\ pc = "for_script"
    /\ i > Len(scripts)
    /\ reported' = all_errors
    /\ ret' = (all_errors = <<>>)
    /\ pc' = "returned"
    /\ UNCHANGED <<main_vars, scripts, i, all_errors, scan_vars, syntax_errors, hist_vars>>

\* --------------------------------------------------------- main, continued
\* faulty variant: all_valid overwritten by the last result
UpdateAllValid_Overwrite(valid, r) == r
\* if not validate_html_file(html_file): all_valid = False
UpdateAllValid(valid, r) == IF ~r THEN FALSE ELSE valid

\* the frames of validate_html_file and of the checks it called are gone
\* once it has returned: their locals hold nothing main can read
FramesDiscarded ==
    /\ scripts' = <<>>
    /\ i' = 1
    /\ all_errors' = <<>>
    /\ ret' = TRUE
    /\ reported' = <<>>
    /\ js_code' = <<>>
    /\ lines' = <<>>
    /\ line_num' = 1
    /\ brace_depth' = 0
    /\ global_declarations' = <<>>
    /\ dup_errors' = <<>>
    /\ syntax_errors' = <<>>
    /\ dup_checked' = <<>>
    /\ syn_checked' = <<>>

\* faulty variant: a loop that stops at the first file with errors
MainAfterValidate_Break ==
    /\ pc = "returned"
    /\ all_valid' = UpdateAllValid(all_valid, ret)
    /\ file_idx' = IF ret THEN file_idx + 1 ELSE Len(html_files) + 1
    /\ pc' = "for_file"
    /\ FramesDiscarded
    /\ UNCHANGED <<templates_exists, html_files, exit_code, any_defect, validated>>

\* back in the for loop of main with the returned value
MainAfterValidate ==
    /\ pc = "returned"
    /\ all_valid' = UpdateAllValid(all_valid, ret)
    /\ file_idx' = file_idx + 1
    /\ pc' = "for_file"
    /\ FramesDiscarded
    /\ UNCHANGED <<templates_exists, html_files, exit_code, any_defect, validated>>

\* after the loop: sys.exit(0) if all_valid else sys.exit(1)
MainExit ==
    /\ pc = "for_file"
    /\ file_idx > Len(html_files)
    /\ exit_code' = IF all_valid THEN 0 ELSE 1
    /\ pc' = "done"
    /\ UNCHANGED <<templates_exists, html_files, file_idx, all_valid>>
    /\ UNCHANGED <<file_vars, scan_vars, syntax_errors, hist_vars>>

Next ==
    \/ MainDirMissing
    \/ MainNoFiles
    \/ MainStart
    \/ ValidateNoScripts
    \/ ValidateBegin
    \/ CallCheckDup
    \/ ScanLine
    \/ CollectDuplicates
    \/ CheckSyntax
    \/ ValidateReturn
    \/ MainAfterValidate
    \/ MainExit

Spec == Init /\ [][Next]_vars


\* ============================================================== properties
\* What the text itself says, read off the flat token sequence without
\* splitting or scanning it.

\* the line (numbered from 1) that holds token position p
LineOf(s, p) == 1 + Cardinality({q \in 1..(p - 1) : s[q] = NL})

NumLines(s) == 1 + Cardinality({q \in 1..Len(s) : s[q] = NL})

\* the positions of character c on the lines strictly before line n
CharsBefore(s, c, n) == {p \in 1..Len(s) : s[p] = c /\ LineOf(s, p) < n}

\* number of '{' minus number of '}' over all lines strictly before line n
DepthBefore(s, n) ==
    Cardinality(CharsBefore(s, "{", n)) - Cardinality(CharsBefore(s, "}", n))

\* the pattern of keyword kw matches at position p: kw followed by a word,
\* and not swallowed as the name of a match of the same pattern just before
RECURSIVE IsMatchAt(_, _, _)
IsMatchAt(s, kw, p) ==
    /\ p >= 1
    /\ p < Len(s)
    /\ s[p] = kw
    /\ s[p + 1] \in Words
    /\ ~IsMatchAt(s, kw, p - 1)

\* every declaration of the text, as (position, keyword); its name is the
\* token that follows
AllDecls(s) == {d \in (1..Len(s)) \X Keywords : IsMatchAt(s, d[2], d[1])}

\* the declarations of identifier x
Decls(s, x) == {d \in AllDecls(s) : s[d[1] + 1] = x}

\* the identifiers the text declares anywhere
DeclaredNames(s) == {s[d[1] + 1] : d \in AllDecls(s)}

\* those on a line whose depth_before is <= 0, and the others
TopLevelDecls(s, x) == {d \in Decls(s, x) : DepthBefore(s, LineOf(s, d[1])) <= 0}
NestedDecls(s, x) == Decls(s, x) \ TopLevelDecls(s, x)

\* how many occurrences of a list carry line n and keyword kw
OccCount(occs, n, kw) ==
    Cardinality({k \in 1..Len(occs) : occs[k][1] = n /\ occs[k][2] = kw})

DefectsFor(errs, x) ==
    {k \in 1..Len(errs) : errs[k].type = "duplicate_declaration" /\ errs[k].variable = x}

LinesAscend(occs) == \A k \in 1..(Len(occs) - 1) : occs[k][1] <= occs[k + 1][1]

\* the occurrences list carries exactly the declarations of the set ds
CarriesExactly(occs, s, ds) ==
    /\ Len(occs) = Cardinality(ds)
    /\ \A n \in 1..NumLines(s) : \A kw \in Keywords :
          OccCount(occs, n, kw)
            = Cardinality({d \in ds : d[2] = kw /\ LineOf(s, d[1]) = n})

\* C1: when check_duplicate_declarations has returned for a text, every
\* identifier (declared in the text or named by a defect) with more than one top-level declaration (any mix of let, const,
\* var) has exactly one duplicate_declaration defect, which carries every
\* top-level occurrence and no other in non-decreasing line order; an
\* identifier with at most one top-level declaration has no defect.
C1_DuplicateDefects ==
    pc = "syntax" =>
        \A x \in DeclaredNames(js_code) \cup {dup_errors[k].variable : k \in 1..Len(dup_errors)} :
            LET top == TopLevelDecls(js_code, x)
                ks == DefectsFor(dup_errors, x)
            IN  IF Cardinality(top) > 1
                THEN /\ Cardinality(ks) = 1
                     /\ \A k \in ks :
                           /\ CarriesExactly(dup_errors[k].occurrences, js_code, top)
                           /\ LinesAscend(dup_errors[k].occurrences)
                ELSE ks = {}

\* C1 witness: an identifier declared exactly twice at top level, with two
\* different keywords, has been reported with exactly 2 occurrences.
C1_Witness ==
    /\ pc = "syntax"
    /\ \E k \in 1..Len(dup_errors) :
          /\ Cardinality(TopLevelDecls(js_code, dup_errors[k].variable)) = 2
          /\ Len(dup_errors[k].occurrences) = 2
          /\ dup_errors[k].occurrences[1][2] # dup_errors[k].occurrences[2][2]
          /\ dup_errors[k].occurrences[1][1] < dup_errors[k].occurrences[2][1]

\* C2: for scenario A the function returns one defect for 'a' with exactly 2
\* occurrences, at lines 1 and 3, the declaration of line 2 being excluded.
C2_ScenarioA ==
    (pc = "syntax" /\ js_code = ScenarioA) =>
        /\ Len(dup_errors) = 1
        /\ dup_errors[1].variable = "a"
        /\ Len(dup_errors[1].occurrences) = 2
        /\ dup_errors[1].occurrences[1][1] = 1
        /\ dup_errors[1].occurrences[2][1] = 3

IndexNames(index) == {index[k].variable : k \in 1..Len(index)}

IndexOccs(index, x) ==
    IF HasKey(index, x)
    THEN (CHOOSE e \in {index[k] : k \in 1..Len(index)} : e.variable = x).occurrences
    ELSE <<>>

\* C3: during and after the scan, the matches of every line already processed
\* are in the index if and only if depth_before of that line is <= 0, the
\* braces of the line itself having no influence; and an identifier declared
\* once at top level and re-declared only on lines with depth_before > 0 gets
\* no duplicate-declaration defect.
C3_RecordedIffDepthBefore ==
    /\ pc = "scan" =>
          LET all == AllDecls(js_code)
          IN  \A n \in 1..(line_num - 1) :
                LET top == DepthBefore(js_code, n) <= 0
                    here == {d \in all : LineOf(js_code, d[1]) = n}
                IN  \A x \in DeclaredNames(js_code) \cup IndexNames(global_declarations) :
                    \A kw \in Keywords :
                      OccCount(IndexOccs(global_declarations, x), n, kw)
                        = IF top
                          THEN Cardinality({d \in here :
                                              d[2] = kw /\ js_code[d[1] + 1] = x})
                          ELSE 0
    /\ pc = "syntax" =>
          \A x \in DeclaredNames(js_code) :
              (Cardinality(TopLevelDecls(js_code, x)) = 1 /\ NestedDecls(js_code, x) # {})
                  => DefectsFor(dup_errors, x) = {}

\* C3 witness: the scan has passed a line that declares an identifier and
\* opens a block (recorded, depth_before 0) and a later line that declares
\* it again inside that block (not recorded, depth_before 1).
C3_Witness ==
    /\ pc = "scan"
    /\ line_num > Len(lines)
    /\ \E x \in Idents :
          /\ Cardinality(TopLevelDecls(js_code, x)) = 1
          /\ NestedDecls(js_code, x) # {}
          /\ \E d \in TopLevelDecls(js_code, x) :
                \E p \in 1..Len(js_code) :
                    js_code[p] = "{" /\ LineOf(js_code, p) = LineOf(js_code, d[1])
          /\ Len(IndexOccs(global_declarations, x)) = 1


\* ---------------------------------------------------------------- balance
Kinds ==
    { [type |-> "unmatched_braces", open |-> "{", close |-> "}"],
      [type |-> "unmatched_parentheses", open |-> "(", close |-> ")"],
      [type |-> "unmatched_brackets", open |-> "[", close |-> "]"] }

\* count(opener) - count(closer) over the whole text
Net(s, kind) ==
    Cardinality({p \in 1..Len(s) : s[p] = kind.open})
      - Cardinality({p \in 1..Len(s) : s[p] = kind.close})

\* C4: when check_syntax_errors has returned for a text, each delimiter kind
\* has exactly one defect if its net count is non-zero and none if it is zero;
\* the defect reports |net| and 'opening' for net > 0, 'closing' for net < 0;
\* no other defect is returned.
C4_BalanceByCounts ==
    (pc = "for_script" /\ i > 1) =>
        /\ \A kind \in Kinds :
              LET net == Net(js_code, kind)
                  ks == {k \in 1..Len(syntax_errors) : syntax_errors[k].type = kind.type}
              IN  IF net = 0 THEN ks = {}
                  ELSE /\ Cardinality(ks) = 1
                       /\ \A k \in ks :
                             /\ syntax_errors[k].message.magnitude
                                  = (IF net > 0 THEN net ELSE 0 - net)
                             /\ syntax_errors[k].message.direction
                                  = (IF net > 0 THEN "opening" ELSE "closing")
        /\ Len(syntax_errors) = Cardinality({kind \in Kinds : Net(js_code, kind) # 0})

\* C4 witness: one text with more ')' than '(' although it holds both, a
\* surplus opening bracket, and balanced braces.
C4_Witness ==
    /\ pc = "for_script"
    /\ i > 1
    /\ count(js_code, "(") > 0
    /\ \E k \in 1..Len(syntax_errors) :
          /\ syntax_errors[k].type = "unmatched_parentheses"
          /\ syntax_errors[k].message.direction = "closing"
    /\ \E k \in 1..Len(syntax_errors) :
          /\ syntax_errors[k].type = "unmatched_brackets"
          /\ syntax_errors[k].message.direction = "opening"
    /\ \A k \in 1..Len(syntax_errors) : syntax_errors[k].type # "unmatched_braces"

\* ------------------------------------------------------------------ order
\* the defects of block b in the merged list, in list order
BlockErrors(errs, b) ==
    LET sel == SelectSeq(errs, LAMBDA e : e[1] = b)
    IN  [k \in 1..Len(sel) |-> sel[k][2]]

TypeRank(type) ==
    CASE type = "duplicate_declaration" -> 0
      [] type = "unmatched_braces" -> 1
      [] type = "unmatched_parentheses" -> 2
      [] type = "unmatched_brackets" -> 3

KeywordRank(kw) ==
    CASE kw = "let" -> 1
      [] kw = "const" -> 2
      [] kw = "var" -> 3

\* x is first met in the text before y: its first top-level declaration
\* stands at an earlier position
FirstMetBefore(s, x, y) ==
    \E d \in TopLevelDecls(s, x) : \A e \in TopLevelDecls(s, y) : d[1] < e[1]

\* x is first recorded before y: its first top-level declaration is on an
\* earlier line, or on the same line under an earlier pattern (let, const,
\* var), or under the same pattern further left
RecordedBefore(s, x, y) ==
    \E d \in TopLevelDecls(s, x) : \A e \in TopLevelDecls(s, y) :
        LET ld == LineOf(s, d[1])
            le == LineOf(s, e[1])
        IN  \/ ld < le
            \/ ld = le /\ KeywordRank(d[2]) < KeywordRank(e[2])
            \/ ld = le /\ d[2] = e[2] /\ d[1] < e[1]

\* duplicate-declaration defects first, then brace, parenthesis, bracket
KindsInOrder(es) ==
    \A k \in 1..(Len(es) - 1) :
        \/ TypeRank(es[k].type) < TypeRank(es[k + 1].type)
        \/ es[k].type = "duplicate_declaration" /\ es[k + 1].type = "duplicate_declaration"

\* C5 as stated: in the merged list of every block, the duplicate-declaration
\* defects come first in the order their identifiers were first encountered
\* in the text, then the delimiter defects as brace, parenthesis, bracket.
C5_OrderAsStated ==
    pc = "for_script" =>
        \A b \in 1..(i - 1) :
            LET es == BlockErrors(all_errors, b)
            IN  /\ KindsInOrder(es)
                /\ \A k \in 1..(Len(es) - 1) :
                      es[k + 1].type = "duplicate_declaration"
                          => FirstMetBefore(scripts[b], es[k].variable, es[k + 1].variable)

\* C5 amended: in the merged list of every block, the duplicate-declaration
\* defects come first in the order their identifiers were first recorded in
\* the index (by line of the first top-level match; within a line all let
\* matches before all const matches before all var matches, each left to
\* right), then the delimiter defects as brace, parenthesis, bracket.
C5_OrderAmended ==
    pc = "for_script" =>
        \A b \in 1..(i - 1) :
            LET es == BlockErrors(all_errors, b)
            IN  /\ KindsInOrder(es)
                /\ \A k \in 1..(Len(es) - 1) :
                      es[k + 1].type = "duplicate_declaration"
                          => RecordedBefore(scripts[b], es[k].variable, es[k + 1].variable)

\* C5 witness: a block whose list holds two duplicate-declaration defects,
\* the first for the identifier met later on its line, and then two
\* delimiter defects.
C5_Witness ==
    /\ pc = "for_script"
    /\ i > 1
    /\ LET es == BlockErrors(all_errors, 1)
       IN  /\ Len(es) = 4
           /\ es[1].type = "duplicate_declaration"
           /\ es[2].type = "duplicate_declaration"
           /\ FirstMetBefore(scripts[1], es[2].variable, es[1].variable)
           /\ es[3].type = "unmatched_parentheses"
           /\ es[4].type = "unmatched_brackets"

RECURSIVE MergedUpTo(_, _)
MergedUpTo(blocks, n) ==
    IF n = 0 THEN <<>>
    ELSE MergedUpTo(blocks, n - 1)
         \o Tagged(n, check_duplicate_declarations(blocks[n]))
         \o Tagged(n, check_syntax_errors(blocks[n]))

\* C7: what the checks return for a block is what they return for its text
\* when run on it alone from fresh locals, whatever was analysed before: the
\* first check's result, the second check's result, and so the merged list
\* of the document are functions of the block texts only.
C7_DependsOnlyOnText ==
    /\ pc = "syntax" => dup_errors = check_duplicate_declarations(scripts[i])
    /\ (pc = "for_script" /\ i > 1) =>
          /\ syntax_errors = check_syntax_errors(scripts[i - 1])
          /\ all_errors = MergedUpTo(scripts, i - 1)

\* C7 witness: the second block of a document has been scanned after a first
\* block that left an unmatched opening brace, and got its duplicate defect.
C7_Witness ==
    /\ pc = "syntax"
    /\ i = 2
    /\ count(scripts[1], "{") > count(scripts[1], "}")
    /\ dup_errors # <<>>
    /\ file_idx = 2

\* ------------------------------------------------------ no script blocks
\* C8: a document with no script block makes validate_html_file report
\* nothing and return True, and the return leaves all_valid as it was.
C8_NoScriptsIsNoOp ==
    /\ [](pc = "returned" /\ scripts = <<>> => ret = TRUE /\ reported = <<>>)
    /\ [][pc = "returned" /\ scripts = <<>> => all_valid' = all_valid]_vars

\* C8 witness: validate_html_file has returned for a second document, which
\* had no script block, in a run that was still valid.
C8_Witness ==
    /\ pc = "returned"
    /\ scripts = <<>>
    /\ file_idx = 2
    /\ all_valid

\* ------------------------------------------------------- nothing skipped
Upto(n) == [k \in 1..n |-> k]

\* C10: when validate_html_file returns, each check has been run exactly once
\* on every block, in order; when main exits after its loop, every file found
\* has been validated exactly once; and all_valid never goes from False to
\* True.
C10_NothingSkipped ==
    /\ [](pc = "returned" => dup_checked = Upto(Len(scripts)) /\ syn_checked = Upto(Len(scripts)))
    /\ [](pc = "done" /\ templates_exists => validated = html_files)
    /\ [][all_valid = FALSE => all_valid' = FALSE]_vars

\* C10 witness: after a first file with errors, validate_html_file has
\* returned for the second file, both of whose blocks were checked although
\* the first block already had a defect.
C10_Witness ==
    /\ pc = "returned"
    /\ file_idx = 2
    /\ ~all_valid
    /\ Len(scripts) = 2
    /\ dup_checked = <<1, 2>>
    /\ syn_checked = <<1, 2>>
    /\ \E k \in 1..Len(all_errors) : all_errors[k][1] = 1


\* ------------------------------------------------------------ open blocks
\* the number of opening braces among tokens 1..p that no later closing
\* brace among them pairs with (a closing brace pairs with the nearest
\* unpaired opening brace before it, and with nothing if there is none)
RECURSIVE OpenAfter(_, _)
OpenAfter(s, p) ==
    IF p = 0 THEN 0
    ELSE LET d == OpenAfter(s, p - 1)
         IN  IF s[p] = "{" THEN d + 1
             ELSE IF s[p] = "}" /\ d > 0 THEN d - 1
             ELSE d

\* the opening braces of earlier lines still unmatched where line n begins
OpenBlocksBefore(s, n) ==
    OpenAfter(s, Cardinality({p \in 1..Len(s) : LineOf(s, p) < n}))

\* C9: for every text, surplus closing braces included, every occurrence in
\* the index stands on a line before which no opening brace of an earlier
\* line is still unmatched: a declaration on a line inside a still-open
\* block is never recorded.
C9_NeverInsideOpenBlock ==
    pc \in {"scan", "syntax"} =>
        \A k \in 1..Len(global_declarations) :
            \A m \in 1..Len(global_declarations[k].occurrences) :
                OpenBlocksBefore(js_code, global_declarations[k].occurrences[m][1]) = 0

====
